---- MODULE Spec2Model ----
(***************************************************************************)
(* A model of deleted-user-analyzer (src/src/main.rs): the run of main     *)
(* from argument parsing to the written output file, and the pure          *)
(* functions it is built from.                                             *)
(*                                                                         *)
(* A Rust String is modelled as the sequence of its Unicode scalar values  *)
(* (code points, as integers); only code points below 256 are used, for    *)
(* which the character classes and case mapping are written out in full.   *)
(* String order (Ord for str, used by sort_by and by BTreeMap) is the      *)
(* lexicographic order of the UTF-8 bytes, which is the lexicographic      *)
(* order of the code points.                                               *)
(***************************************************************************)
EXTENDS Integers, Sequences, FiniteSets, TLC

VARIABLES
    \* ---- the run of main ----
    pc,              \* the position of main
    args,            \* Args: verbose, output, min_word_length
    input_file,      \* the file at args.input: [readable, valid, records]
    msgs,            \* Vec<Message> parsed from the file
    running,         \* the thread pool: the indices of the items whose task a worker is running
    filter_slot,     \* the parallel filter: item index -> "todo" | "keep" | "drop"
    deleted_msgs,    \* Vec<Message> collected from the filter
    author_msg_map,  \* HashMap<String, Vec<Message>>
    author_vec,      \* author_msg_map.into_iter().collect::<Vec<_>>(): a Vec of <<author_id, msgs>>
    map_slot,        \* the parallel map: item index -> None | Some(AuthorAnalysis)
    analysis_data,   \* Vec<AuthorAnalysis>
    global_word_frequency, \* BTreeMap<String, usize>
    result,          \* AnalysisResult, or NoResult before it is built
    console,         \* what was printed, in order
    out_file,        \* the content written to args.output, or NoResult
    exit,            \* what main returned: "running" | "Ok" | "ErrRead" | "ErrParse" | "ErrWrite"
    \* ---- a call of one pure function on its own ----
    u_pc,            \* how many times the function was applied
    u_in,            \* the call's input
    u_prev,          \* the value before the last application
    u_out            \* the value after the last application

mainvars == <<pc, args, input_file, msgs, running, filter_slot, deleted_msgs,
              author_msg_map, author_vec, map_slot, analysis_data,
              global_word_frequency, result, console, out_file, exit>>
unitvars == <<u_pc, u_in, u_prev, u_out>>
vars == <<mainvars, unitvars>>

(***************************************************************************)
(* Bounds of the model.                                                    *)
(***************************************************************************)
MaxContentLen == 4   \* longest content string given to tokenize_content on its own
MaxMinLen == 3       \* largest min_len given to tokenize_content on its own
MaxMsgs == 3         \* most messages in the input file
NWorkers == 2        \* threads of the worker pool
MaxCount == 2        \* largest count in a frequency table given to the ranking on its own
NRankWords == 12     \* most words in a frequency table given to the ranking on its own

(***************************************************************************)
(* Characters and strings.                                                 *)
(***************************************************************************)
\* char::is_whitespace (Unicode White_Space), for code points below 256.
is_whitespace(c) == c \in (9..13) \cup {32, 133, 160}

\* char::is_alphanumeric = is_alphabetic || is_numeric, for code points below 256.
is_alphanumeric(c) ==
    \/ c \in (65..90) \cup (97..122) \cup {170, 181, 186}
    \/ c \in (192..214) \cup (216..246) \cup (248..255)
    \/ c \in (48..57) \cup {178, 179, 185, 188, 189, 190}

\* char::to_lowercase, for code points below 256 (each maps to one character).
char_to_lowercase(c) ==
    IF c \in (65..90) \cup (192..214) \cup (216..222) THEN c + 32 ELSE c

\* str::to_lowercase: the characters' lowercase mappings, in order.
to_lowercase(s) == [i \in 1..Len(s) |-> char_to_lowercase(s[i])]

\* char::len_utf8.
len_utf8(c) == IF c < 128 THEN 1 ELSE IF c < 2048 THEN 2 ELSE IF c < 65536 THEN 3 ELSE 4

\* String::len: the length in bytes of the UTF-8 encoding.
RECURSIVE str_len(_)
str_len(s) == IF s = <<>> THEN 0 ELSE len_utf8(Head(s)) + str_len(Tail(s))

\* Ord for str: lexicographic on the UTF-8 bytes, i.e. on the code points.
RECURSIVE str_lt(_, _)
str_lt(a, b) ==
    IF b = <<>> THEN FALSE
    ELSE IF a = <<>> THEN TRUE
    ELSE IF Head(a) # Head(b) THEN Head(a) < Head(b)
    ELSE str_lt(Tail(a), Tail(b))

\* str::contains(&str): pat occurs in s as a contiguous substring.
contains(s, pat) ==
    \E i \in 0..(Len(s) - Len(pat)) :
        \A j \in 1..Len(pat) : s[i + j] = pat[j]

\* str::split_whitespace: the maximal runs of non-whitespace characters, in order.
RECURSIVE split_ws(_, _)
split_ws(s, cur) ==
    IF s = <<>> THEN (IF cur = <<>> THEN <<>> ELSE <<cur>>)
    ELSE IF is_whitespace(Head(s))
         THEN (IF cur = <<>> THEN <<>> ELSE <<cur>>) \o split_ws(Tail(s), <<>>)
         ELSE split_ws(Tail(s), Append(cur, Head(s)))

split_whitespace(s) == split_ws(s, <<>>)

\* w.chars().filter(|c| c.is_alphanumeric()).collect::<String>()
clean(w) == SelectSeq(w, is_alphanumeric)

(***************************************************************************)
(* tokenize_content                                                        *)
(***************************************************************************)
RECURSIVE filter_map_words(_, _)
filter_map_words(words, min_len) ==
    IF words = <<>> THEN <<>>
    ELSE LET clean_w == clean(Head(words))
         IN (IF str_len(clean_w) >= min_len THEN <<clean_w>> ELSE <<>>)
            \o filter_map_words(Tail(words), min_len)

tokenize_content(content, min_len) ==
    filter_map_words(split_whitespace(to_lowercase(content)), min_len)

(***************************************************************************)
(* Options, maps and vectors.                                              *)
(***************************************************************************)
\* Option<T>: None is the empty sequence, Some(x) the sequence of x alone.
None == <<>>
Some(x) == <<x>>

\* HashMap::new / BTreeMap::new: a map is a function from its keys.
EmptyMap == [k \in {} |-> 0]

\* *map.entry(k).or_insert(0) += n
entry_add(map, k, n) ==
    [x \in DOMAIN map \cup {k} |->
        (IF x \in DOMAIN map THEN map[x] ELSE 0) + (IF x = k THEN n ELSE 0)]

\* Vec::truncate(n)
truncate(s, n) == IF Len(s) <= n THEN s ELSE SubSeq(s, 1, n)

\* The keys of a BTreeMap<String, _> in the order its iterator yields them.
RECURSIVE btree_keys(_)
btree_keys(keys) ==
    IF keys = {} THEN <<>>
    ELSE LET least == CHOOSE k \in keys : \A o \in keys : o = k \/ str_lt(k, o)
         IN <<least>> \o btree_keys(keys \ {least})

\* BTreeMap::iter().map(|(k, v)| (k.clone(), *v)).collect::<Vec<_>>()
btree_pairs(map) ==
    LET ks == btree_keys(DOMAIN map)
    IN [i \in 1..Len(ks) |-> <<ks[i], map[ks[i]]>>]

(***************************************************************************)
(* The steps of main as functions of their inputs.                         *)
(***************************************************************************)
\* The literal "deleted user" of the filter closure.
DeletedUserLit == <<100, 101, 108, 101, 116, 101, 100, 32, 117, 115, 101, 114>>

\* A wrong match: the field is compared without being lowercased.
mentions_deleted_case_sensitive(opt) ==
    opt # None /\ contains(opt[1], DeletedUserLit)

\* opt.as_ref().map_or(false, |s| s.to_lowercase().contains("deleted user"))
mentions_deleted(opt) ==
    opt # None /\ contains(to_lowercase(opt[1]), DeletedUserLit)

\* The closure given to filter.
is_deleted_msg(msg) ==
    mentions_deleted(msg.mentioned_user_name) \/ mentions_deleted(msg.mentioned_user_nickname)

\* filter(..).collect() of a parallel iterator over a Vec: the items whose
\* slot says "keep", in the order of their indices.
RECURSIVE collect_kept(_, _)
collect_kept(items, slots) ==
    IF items = <<>> THEN <<>>
    ELSE LET n == Len(items)
             front == collect_kept(SubSeq(items, 1, n - 1), slots)
         IN IF slots[n] = "keep" THEN Append(front, items[n]) ELSE front

\* The loop over deleted_msgs: entry(author_id).or_insert_with(Vec::new).push(msg)
RECURSIVE group_by_author(_)
group_by_author(ms) ==
    IF ms = <<>> THEN EmptyMap
    ELSE LET n == Len(ms)
             m == group_by_author(SubSeq(ms, 1, n - 1))
             a == ms[n].author_id
         IN [x \in DOMAIN m \cup {a} |->
                IF x = a
                THEN Append(IF a \in DOMAIN m THEN m[a] ELSE <<>>, ms[n])
                ELSE m[x]]

\* A wrong sort: the list is left as it is.
sort_by_content_skipped(ms) == ms

\* msgs.sort_by(|a, b| a.content.cmp(&b.content)): a stable sort, so each
\* message goes after every message whose content is not greater.
RECURSIVE sort_by_content(_)
sort_by_content(ms) ==
    IF ms = <<>> THEN <<>>
    ELSE LET n == Len(ms)
             sorted == sort_by_content(SubSeq(ms, 1, n - 1))
             x == ms[n]
             k == Cardinality({i \in 1..Len(sorted) : ~ str_lt(x.content, sorted[i].content)})
         IN SubSeq(sorted, 1, k) \o <<x>> \o SubSeq(sorted, k + 1, Len(sorted))

\* msgs.dedup_by(|a, b| a.content == b.content): an element is removed when
\* its content equals that of the last element kept.
RECURSIVE dedup_by_content(_)
dedup_by_content(ms) ==
    IF ms = <<>> THEN <<>>
    ELSE LET n == Len(ms)
             kept == dedup_by_content(SubSeq(ms, 1, n - 1))
         IN IF kept # <<>> /\ ms[n].content = kept[Len(kept)].content
            THEN kept
            ELSE Append(kept, ms[n])

\* A wrong step: adjacent duplicates are collapsed in a list that was not sorted.
dedup_without_sort(ms) == dedup_by_content(ms)

\* The body of the loop over author_msg_map.iter_mut().
sort_dedup(ms) == dedup_by_content(sort_by_content(ms))

\* A wrong count: a token adds one per message, however often it occurs in it.
RECURSIVE count_tokens_once(_, _)
count_tokens_once(tokens, map) ==
    IF tokens = <<>> THEN map
    ELSE IF \E i \in 2..Len(tokens) : tokens[i] = Head(tokens)
         THEN count_tokens_once(Tail(tokens), map)
         ELSE count_tokens_once(Tail(tokens), entry_add(map, Head(tokens), 1))

\* The loops filling word_freq_map: every token of every message adds one.
RECURSIVE count_tokens(_, _)
count_tokens(tokens, map) ==
    IF tokens = <<>> THEN map
    ELSE count_tokens(Tail(tokens), entry_add(map, Head(tokens), 1))

RECURSIVE count_words(_, _, _)
count_words(ms, min_len, map) ==
    IF ms = <<>> THEN map
    ELSE count_words(Tail(ms), min_len,
                     count_tokens(tokenize_content(Head(ms).content, min_len), map))

\* A wrong sort: count descending, but a pair goes before the pairs of equal
\* count, so ties come out in descending order of the word.
RECURSIVE sort_by_count_desc_unstable(_)
sort_by_count_desc_unstable(ps) ==
    IF ps = <<>> THEN <<>>
    ELSE LET n == Len(ps)
             sorted == sort_by_count_desc_unstable(SubSeq(ps, 1, n - 1))
             x == ps[n]
             k == Cardinality({i \in 1..Len(sorted) : sorted[i][2] > x[2]})
         IN SubSeq(sorted, 1, k) \o <<x>> \o SubSeq(sorted, k + 1, Len(sorted))

\* common_words.sort_by(|a, b| b.1.cmp(&a.1)): a stable sort, count descending,
\* so each pair goes after every pair whose count is not smaller.
RECURSIVE sort_by_count_desc(_)
sort_by_count_desc(ps) ==
    IF ps = <<>> THEN <<>>
    ELSE LET n == Len(ps)
             sorted == sort_by_count_desc(SubSeq(ps, 1, n - 1))
             x == ps[n]
             k == Cardinality({i \in 1..Len(sorted) : sorted[i][2] >= x[2]})
         IN SubSeq(sorted, 1, k) \o <<x>> \o SubSeq(sorted, k + 1, Len(sorted))

\* common_words.truncate(10)
TopWords == 10

\* common_words as built from word_frequency.
most_common_words(word_frequency) ==
    truncate(sort_by_count_desc(btree_pairs(word_frequency)), TopWords)

\* A wrong total: the author's messages counted before deduplication.
total_msgs_before_dedup(ms) ==
    Cardinality({i \in 1..Len(deleted_msgs) : deleted_msgs[i].author_id = ms[1].author_id})

\* total_msgs = msgs.len(), taken from the list the closure is given.
total_msgs_of(ms) == Len(ms)

\* The closure given to map: one author's AuthorAnalysis.
author_analysis(author_id, ms, min_len) ==
    LET word_frequency == count_words(ms, min_len, EmptyMap)
    IN [author_id |-> author_id,
        author_name |-> ms[1].author_name,
        author_nickname |-> ms[1].author_nickname,
        total_messages_to_deleted_user |-> total_msgs_of(ms),
        unique_message_count |-> Len(ms),
        word_frequency |-> word_frequency,
        most_common_words |-> most_common_words(word_frequency)]

\* A wrong merge: each word of a table adds one, not its count.
RECURSIVE add_table_ones(_, _, _)
add_table_ones(global, table, keys) ==
    IF keys = <<>> THEN global
    ELSE add_table_ones(entry_add(global, Head(keys), 1), table, Tail(keys))

\* The loop over one analysis.word_frequency: global_freq[word] += count
RECURSIVE add_table(_, _, _)
add_table(global, table, keys) ==
    IF keys = <<>> THEN global
    ELSE add_table(entry_add(global, Head(keys), table[Head(keys)]), table, Tail(keys))

\* The loop over analysis_data filling global_freq.
RECURSIVE accumulate_global(_, _)
accumulate_global(analyses, global) ==
    IF analyses = <<>> THEN global
    ELSE LET wf == Head(analyses).word_frequency
         IN accumulate_global(Tail(analyses), add_table(global, wf, btree_keys(DOMAIN wf)))

\* Iterator::sum over a field of analysis_data.
RECURSIVE sum_field(_, _)
sum_field(analyses, field) ==
    IF analyses = <<>> THEN 0
    ELSE (IF field = "total" THEN Head(analyses).total_messages_to_deleted_user
                             ELSE Head(analyses).unique_message_count)
         + sum_field(Tail(analyses), field)

\* The AnalysisResult literal.
build_result(analyses, global) ==
    [total_messages |-> sum_field(analyses, "total"),
     messages_to_deleted_users |-> sum_field(analyses, "unique"),
     unique_authors |-> Len(analyses),
     authors_analysis |-> analyses,
     global_word_frequency |-> global]

(***************************************************************************)
(* The inputs of a run.                                                    *)
(***************************************************************************)
ContentA == <<72, 101, 121, 32, 104, 101, 121, 32, 121, 111, 117>>     \* "Hey hey you"
ContentB == <<121, 111, 117, 44, 32, 72, 69, 89, 33>>                  \* "you, HEY!"
ContentC == <<121, 111, 32, 104, 101, 121>>                            \* "yo hey"

DeletedTag == <<68, 101, 108, 101, 116, 101, 100, 32, 85, 115, 101, 114, 35, 48, 48, 48, 49>>  \* "Deleted User#0001"
DeletedUpper == <<68, 69, 76, 69, 84, 69, 68, 32, 85, 83, 69, 82>>                 \* "DELETED USER"
DeletedInside == <<120, 120, 32>> \o DeletedUserLit                                \* "xx deleted user"
DeletedNearMiss == <<100, 101, 108, 101, 116, 101, 100, 95, 117, 115, 101, 114>>   \* "deleted_user"
LiveUser == <<98, 111, 98>>                                                        \* "bob"

\* struct Message
Message(id, content, aid, aname, mname, mnick) ==
    [message_id |-> id, content |-> content, timestamp |-> id,
     author_name |-> aname, author_nickname |-> aname, author_id |-> aid,
     mentioned_user_name |-> mname, mentioned_user_nickname |-> mnick]

\* The messages an input file is made of.
M1 == Message("m1", ContentA, "A1", "Ann",   Some(DeletedTag), None)
M2 == Message("m2", ContentA, "A1", "Annie", Some(DeletedTag), None)
M3 == Message("m3", ContentB, "A1", "Ann",   Some(LiveUser), Some(DeletedNearMiss))
M4 == Message("m4", ContentB, "A2", "Bo",    Some(LiveUser), Some(DeletedInside))
M5 == Message("m5", ContentC, "A2", "Bo",    None, None)
M6 == Message("m6", ContentC, "A1", "Ann",   None, Some(DeletedUpper))

MessagePool == {M1, M2, M3, M4, M5, M6}

InputFiles ==
    { [readable |-> FALSE, valid |-> FALSE, records |-> <<>>],
      [readable |-> TRUE, valid |-> FALSE, records |-> <<>>] }
    \cup { [readable |-> TRUE, valid |-> TRUE, records |-> r] :
             r \in UNION {[1..n -> MessagePool] : n \in 0..MaxMsgs} }

\* struct Args (input is the name of input_file): the command lines tried.
ArgsSet ==
    { [verbose |-> FALSE, output |-> None,             min_word_length |-> 3],
      [verbose |-> TRUE,  output |-> Some("out.json"), min_word_length |-> 3],
      [verbose |-> FALSE, output |-> Some("out.json"), min_word_length |-> 2],
      [verbose |-> TRUE,  output |-> None,             min_word_length |-> 2] }

(***************************************************************************)
(* The run of main.                                                        *)
(***************************************************************************)
UnitIdle == u_pc = 0 /\ u_in = <<>> /\ u_prev = <<>> /\ u_out = <<>>

MainInit ==
    /\ pc = "start"
    /\ args \in ArgsSet
    /\ input_file \in InputFiles
    /\ msgs = <<>>
    /\ running = {}
    /\ filter_slot = <<>>
    /\ deleted_msgs = <<>>
    /\ author_msg_map = EmptyMap
    /\ author_vec = <<>>
    /\ map_slot = <<>>
    /\ analysis_data = <<>>
    /\ global_word_frequency = EmptyMap
    /\ result = None
    /\ console = <<>>
    /\ out_file = None
    /\ exit = "running"

Init == MainInit /\ UnitIdle

\* println! when args.verbose
verbose_print(line) == IF args.verbose THEN Append(console, line) ELSE console

\* Args::parse and the first verbose line.
Start ==
    /\ pc = "start"
    /\ console' = verbose_print(<<"starting">>)
    /\ pc' = "read"
    /\ UNCHANGED <<unitvars, running, args, input_file, msgs, filter_slot, deleted_msgs,
                   author_msg_map, author_vec, map_slot, analysis_data,
                   global_word_frequency, result, out_file, exit>>

\* fs::read_to_string(&args.input)? returning the error
ReadFail ==
    /\ pc = "read"
    /\ ~ input_file.readable
    /\ exit' = "ErrRead"
    /\ pc' = "done"
    /\ UNCHANGED <<unitvars, running, args, input_file, msgs, filter_slot, deleted_msgs,
                   author_msg_map, author_vec, map_slot, analysis_data,
                   global_word_frequency, result, console, out_file>>

ReadOk ==
    /\ pc = "read"
    /\ input_file.readable
    /\ pc' = "parse"
    /\ UNCHANGED <<unitvars, running, args, input_file, msgs, filter_slot, deleted_msgs,
                   author_msg_map, author_vec, map_slot, analysis_data,
                   global_word_frequency, result, console, out_file, exit>>

\* serde_json::from_str(&file_stuff)? returning the error
ParseFail ==
    /\ pc = "parse"
    /\ ~ input_file.valid
    /\ exit' = "ErrParse"
    /\ pc' = "done"
    /\ UNCHANGED <<unitvars, running, args, input_file, msgs, filter_slot, deleted_msgs,
                   author_msg_map, author_vec, map_slot, analysis_data,
                   global_word_frequency, result, console, out_file>>

\* The parse succeeding; msgs.into_par_iter() hands one task per message to the pool.
ParseOk ==
    /\ pc = "parse"
    /\ input_file.valid
    /\ msgs' = input_file.records
    /\ console' = verbose_print(<<"loaded", Len(input_file.records)>>)
    /\ filter_slot' = [i \in 1..Len(input_file.records) |-> "todo"]
    /\ pc' = "filter"
    /\ UNCHANGED <<unitvars, running, args, input_file, deleted_msgs,
                   author_msg_map, author_vec, map_slot, analysis_data,
                   global_word_frequency, result, out_file, exit>>

\* An idle worker takes the task of message i from the parallel iterator.
FilterTake(i) ==
    /\ pc = "filter"
    /\ Cardinality(running) < NWorkers
    /\ filter_slot[i] = "todo"
    /\ i \notin running
    /\ running' = running \cup {i}
    /\ UNCHANGED <<unitvars, pc, args, input_file, msgs, filter_slot, deleted_msgs,
                   author_msg_map, author_vec, map_slot, analysis_data,
                   global_word_frequency, result, console, out_file, exit>>

\* The task of message i runs the filter closure on it and ends.
FilterItem(i) ==
    /\ pc = "filter"
    /\ i \in running
    /\ filter_slot' = [filter_slot EXCEPT ![i] =
                          IF is_deleted_msg(msgs[i]) THEN "keep" ELSE "drop"]
    /\ running' = running \ {i}
    /\ UNCHANGED <<unitvars, pc, args, input_file, msgs, deleted_msgs,
                   author_msg_map, author_vec, map_slot, analysis_data,
                   global_word_frequency, result, console, out_file, exit>>

\* collect() returns once every task has ended.
filter_joined(slots) == \A i \in DOMAIN slots : slots[i] # "todo"

FilterCollect ==
    /\ pc = "filter"
    /\ filter_joined(filter_slot)
    /\ deleted_msgs' = collect_kept(msgs, filter_slot)
    /\ console' = verbose_print(<<"found", Len(collect_kept(msgs, filter_slot))>>)
    /\ pc' = "group"
    /\ UNCHANGED <<unitvars, running, args, input_file, msgs, filter_slot,
                   author_msg_map, author_vec, map_slot, analysis_data,
                   global_word_frequency, result, out_file, exit>>

GroupByAuthor ==
    /\ pc = "group"
    /\ author_msg_map' = group_by_author(deleted_msgs)
    /\ pc' = "dedup"
    /\ UNCHANGED <<unitvars, running, args, input_file, msgs, filter_slot, deleted_msgs,
                   author_vec, map_slot, analysis_data,
                   global_word_frequency, result, console, out_file, exit>>

DedupAuthors ==
    /\ pc = "dedup"
    /\ author_msg_map' = [a \in DOMAIN author_msg_map |-> sort_dedup(author_msg_map[a])]
    /\ console' = verbose_print(<<"authors", Cardinality(DOMAIN author_msg_map)>>)
    /\ pc' = "spawn"
    /\ UNCHANGED <<unitvars, running, args, input_file, msgs, filter_slot, deleted_msgs,
                   author_vec, map_slot, analysis_data,
                   global_word_frequency, result, out_file, exit>>

\* The orders HashMap::into_iter may yield the entries in: any.
hash_orders(map) ==
    { o \in [1..Cardinality(DOMAIN map) -> DOMAIN map] :
        \A i, j \in DOMAIN o : i # j => o[i] # o[j] }

\* author_msg_map.into_iter().collect::<Vec<_>>().into_par_iter()
SpawnAuthors ==
    /\ pc = "spawn"
    /\ \E o \in hash_orders(author_msg_map) :
          author_vec' = [i \in DOMAIN o |-> <<o[i], author_msg_map[o[i]]>>]
    /\ map_slot' = [i \in 1..Cardinality(DOMAIN author_msg_map) |-> None]
    /\ pc' = "map"
    /\ UNCHANGED <<unitvars, running, args, input_file, msgs, filter_slot, deleted_msgs,
                   author_msg_map, analysis_data,
                   global_word_frequency, result, console, out_file, exit>>

\* An idle worker takes the task of author i from the parallel iterator.
AnalyzeTake(i) ==
    /\ pc = "map"
    /\ Cardinality(running) < NWorkers
    /\ map_slot[i] = None
    /\ i \notin running
    /\ running' = running \cup {i}
    /\ UNCHANGED <<unitvars, pc, args, input_file, msgs, filter_slot, deleted_msgs,
                   author_msg_map, author_vec, map_slot, analysis_data,
                   global_word_frequency, result, console, out_file, exit>>

\* The task of author i runs the map closure on it and ends.
AnalyzeAuthor(i) ==
    /\ pc = "map"
    /\ i \in running
    /\ map_slot' = [map_slot EXCEPT ![i] =
            Some(author_analysis(author_vec[i][1], author_vec[i][2], args.min_word_length))]
    /\ running' = running \ {i}
    /\ UNCHANGED <<unitvars, pc, args, input_file, msgs, filter_slot, deleted_msgs,
                   author_msg_map, author_vec, analysis_data,
                   global_word_frequency, result, console, out_file, exit>>

\* A wrong join: collect() returns while tasks are still running.
map_joined_early(slots) == TRUE

\* collect() returns once every task has ended.
map_joined(slots) == \A i \in DOMAIN slots : slots[i] # None

\* The results of the tasks that have ended, in the order of their indices.
RECURSIVE collect_done(_)
collect_done(slots) ==
    IF slots = <<>> THEN <<>>
    ELSE LET n == Len(slots)
             front == collect_done(SubSeq(slots, 1, n - 1))
         IN IF slots[n] = None THEN front ELSE Append(front, slots[n][1])

MapCollect ==
    /\ pc = "map"
    /\ map_joined(map_slot)
    /\ analysis_data' = collect_done(map_slot)
    /\ pc' = "global"
    /\ UNCHANGED <<unitvars, running, args, input_file, msgs, filter_slot, deleted_msgs,
                   author_msg_map, author_vec, map_slot,
                   global_word_frequency, result, console, out_file, exit>>

\* The loop filling global_freq, run by the main thread alone.
AccumulateGlobal ==
    /\ pc = "global"
    /\ global_word_frequency' = accumulate_global(analysis_data, EmptyMap)
    /\ pc' = "result"
    /\ UNCHANGED <<unitvars, running, args, input_file, msgs, filter_slot, deleted_msgs,
                   author_msg_map, author_vec, map_slot, analysis_data,
                   result, console, out_file, exit>>

BuildResult ==
    /\ pc = "result"
    /\ result' = Some(build_result(analysis_data, global_word_frequency))
    /\ pc' = "display"
    /\ UNCHANGED <<unitvars, running, args, input_file, msgs, filter_slot, deleted_msgs,
                   author_msg_map, author_vec, map_slot, analysis_data,
                   global_word_frequency, console, out_file, exit>>

\* display_results(&result, args.verbose): the three counts are always printed
\* (the views printed under --verbose are derived from result and change nothing).
DisplayResults ==
    /\ pc = "display"
    /\ console' = Append(console, <<"results", result[1].total_messages,
                                    result[1].messages_to_deleted_users,
                                    result[1].unique_authors>>)
    /\ pc' = "write"
    /\ UNCHANGED <<unitvars, running, args, input_file, msgs, filter_slot, deleted_msgs,
                   author_msg_map, author_vec, map_slot, analysis_data,
                   global_word_frequency, result, out_file, exit>>

\* No --output: main returns Ok(()).
NoOutput ==
    /\ pc = "write"
    /\ args.output = None
    /\ exit' = "Ok"
    /\ pc' = "done"
    /\ UNCHANGED <<unitvars, running, args, input_file, msgs, filter_slot, deleted_msgs,
                   author_msg_map, author_vec, map_slot, analysis_data,
                   global_word_frequency, result, console, out_file>>

\* fs::write(&output_path, output_json)? succeeding; whether it does is the
\* file system's choice at that moment.
WriteOk ==
    /\ pc = "write"
    /\ args.output # None
    /\ out_file' = result
    /\ console' = Append(console, <<"saved">>)
    /\ exit' = "Ok"
    /\ pc' = "done"
    /\ UNCHANGED <<unitvars, running, args, input_file, msgs, filter_slot, deleted_msgs,
                   author_msg_map, author_vec, map_slot, analysis_data,
                   global_word_frequency, result>>

\* A wrong write: the error of fs::write is dropped and main returns Ok(()).
WriteFailIgnored ==
    /\ pc = "write"
    /\ args.output # None
    /\ exit' = "Ok"
    /\ pc' = "done"
    /\ UNCHANGED <<unitvars, running, args, input_file, msgs, filter_slot, deleted_msgs,
                   author_msg_map, author_vec, map_slot, analysis_data,
                   global_word_frequency, result, console, out_file>>

\* serde_json::to_string_pretty(&result)? or fs::write(&output_path,
\* output_json)? returning the error
WriteFail ==
    /\ pc = "write"
    /\ args.output # None
    /\ exit' = "ErrWrite"
    /\ pc' = "done"
    /\ UNCHANGED <<unitvars, running, args, input_file, msgs, filter_slot, deleted_msgs,
                   author_msg_map, author_vec, map_slot, analysis_data,
                   global_word_frequency, result, console, out_file>>

Next ==
    \/ Start \/ ReadFail \/ ReadOk \/ ParseFail \/ ParseOk
    \/ \E i \in DOMAIN filter_slot : FilterTake(i)
    \/ \E i \in DOMAIN filter_slot : FilterItem(i)
    \/ FilterCollect \/ GroupByAuthor \/ DedupAuthors \/ SpawnAuthors
    \/ \E i \in DOMAIN map_slot : AnalyzeTake(i)
    \/ \E i \in DOMAIN map_slot : AnalyzeAuthor(i)
    \/ MapCollect \/ AccumulateGlobal \/ BuildResult \/ DisplayResults
    \/ NoOutput \/ WriteOk \/ WriteFail

Spec == Init /\ [][Next]_vars

(***************************************************************************)
(* One pure function called on its own, on inputs drawn from bounded sets. *)
(***************************************************************************)
MainIdle ==
    /\ pc = "idle"
    /\ args = [verbose |-> FALSE, output |-> None, min_word_length |-> 3]
    /\ input_file = [readable |-> FALSE, valid |-> FALSE, records |-> <<>>]
    /\ msgs = <<>>
    /\ running = {}
    /\ filter_slot = <<>>
    /\ deleted_msgs = <<>>
    /\ author_msg_map = EmptyMap
    /\ author_vec = <<>>
    /\ map_slot = <<>>
    /\ analysis_data = <<>>
    /\ global_word_frequency = EmptyMap
    /\ result = None
    /\ console = <<>>
    /\ out_file = None
    /\ exit = "running"

\* ---- tokenize_content ----
\* ' '  ','  '7'  'A'  'b'  and U+00C9 (E with acute accent, two bytes in UTF-8)
TokChars == {32, 44, 55, 65, 98, 201}

TokContents == UNION {[1..n -> TokChars] : n \in 0..MaxContentLen}

InitTokenize ==
    /\ MainIdle
    /\ u_pc = 0
    /\ u_in \in [content : TokContents, min_len : 0..MaxMinLen]
    /\ u_prev = <<>>
    /\ u_out = <<>>

CallTokenize ==
    /\ u_pc = 0
    /\ u_out' = tokenize_content(u_in.content, u_in.min_len)
    /\ u_pc' = 1
    /\ UNCHANGED <<mainvars, u_in, u_prev>>

SpecTokenize == InitTokenize /\ [][CallTokenize]_vars

\* ---- sort_by then dedup_by on one author's list ----
InitDedup ==
    /\ MainIdle
    /\ u_pc = 0
    /\ u_in \in UNION {[1..n -> MessagePool] : n \in 0..MaxMsgs}
    /\ u_prev = u_in
    /\ u_out = u_in

\* The step applied, and applied once more to its own result.
CallSortDedup ==
    /\ u_pc < 2
    /\ u_prev' = u_out
    /\ u_out' = sort_dedup(u_out)
    /\ u_pc' = u_pc + 1
    /\ UNCHANGED <<mainvars, u_in>>

SpecDedup == InitDedup /\ [][CallSortDedup]_vars

\* ---- most_common_words of one frequency table ----
\* "a", "ab", "b", "10"
SmallWords == {<<97>>, <<97, 98>>, <<98>>, <<49, 48>>}

\* "a", "b", "c", ...
RankWord(i) == <<96 + i>>

\* Every table over SmallWords with counts up to MaxCount, and tables of up to
\* NRankWords words whose counts follow one of three patterns.
RankTables ==
    { [w \in D |-> c[w]] : D \in SUBSET SmallWords, c \in [SmallWords -> 1..MaxCount] }
    \cup { [w \in {RankWord(i) : i \in 1..n} |-> 1 + ((w[1] * k) % 3)] :
             n \in 0..NRankWords, k \in 1..3 }

InitRank ==
    /\ MainIdle
    /\ u_pc = 0
    /\ u_in \in RankTables
    /\ u_prev = <<>>
    /\ u_out = <<>>

CallMostCommon ==
    /\ u_pc = 0
    /\ u_out' = most_common_words(u_in)
    /\ u_pc' = 1
    /\ UNCHANGED <<mainvars, u_in, u_prev>>

SpecRank == InitRank /\ [][CallMostCommon]_vars

(***************************************************************************)
(* The claims.                                                             *)
(***************************************************************************)
\* The k-th smallest element of a set of integers.
kth(K, k) == CHOOSE i \in K : Cardinality({j \in K : j < i}) = k - 1

\* The sum of f over the finite set S.
RECURSIVE SetSum(_, _)
SetSum(S, f) ==
    IF S = {} THEN 0
    ELSE LET x == CHOOSE y \in S : TRUE IN f[x] + SetSum(S \ {x}, f)

\* How many times w occurs in the sequence tokens.
Occurrences(w, tokens) == Cardinality({i \in 1..Len(tokens) : tokens[i] = w})

\* The elements of a sequence, as a set.
Range(s) == {s[i] : i \in 1..Len(s)}

\* The number of characters of a string.
char_count(s) == Len(s)

\* The tokenizer's contract for one call, with token_len as the length of a
\* token: every token is lowercase, alphanumeric and of length >= min_len, and
\* the tokens are the cleaned forms of the whitespace-separated words of the
\* content that are long enough, one per word, in the words' order.
TokenizeContractFor(content, min_len, tokens, token_len(_)) ==
    LET words == split_whitespace(content)
        cleaned == [i \in 1..Len(words) |-> clean(to_lowercase(words[i]))]
        long == {i \in 1..Len(words) : token_len(cleaned[i]) >= min_len}
    IN /\ \A k \in 1..Len(tokens) :
            /\ \A j \in 1..Len(tokens[k]) :
                  /\ char_to_lowercase(tokens[k][j]) = tokens[k][j]
                  /\ is_alphanumeric(tokens[k][j])
                  /\ ~ is_whitespace(tokens[k][j])
            /\ token_len(tokens[k]) >= min_len
       /\ Len(tokens) = Cardinality(long)
       /\ \A k \in 1..Len(tokens) : tokens[k] = cleaned[kth(long, k)]

\* C1: every token returned by tokenize_content(content, min_len) is lowercase,
\* alphanumeric-only and has length (its number of characters) >= min_len, and
\* the tokens are in the order of the source words they were cleaned from, one
\* per word whose cleaned form is long enough, repeats kept.
TokenizeContract ==
    u_pc = 1 => TokenizeContractFor(u_in.content, u_in.min_len, u_out, char_count)

\* What holds of tokenize_content instead: the same contract with the length of
\* a token taken in UTF-8 bytes, as String::len counts it.
TokenizeContractBytes ==
    u_pc = 1 => TokenizeContractFor(u_in.content, u_in.min_len, u_out, str_len)

\* Whether the messages of ms have pairwise distinct contents.
DistinctContents(ms) ==
    \A i, j \in 1..Len(ms) : i # j => ms[i].content # ms[j].content

\* The content values of the messages of ms.
ContentSet(ms) == {ms[i].content : i \in 1..Len(ms)}

\* C3: after sort-by-content then collapse-adjacent, the survivors (messages of
\* the list) have pairwise distinct contents, the set of content values is the
\* one before the step, so one survivor per content value as full-set
\* deduplication gives, and applying the step again changes nothing.
SortDedupIsSetDedup ==
    /\ u_pc >= 1 =>
          /\ DistinctContents(u_out)
          /\ ContentSet(u_out) = ContentSet(u_in)
          /\ Len(u_out) = Cardinality(ContentSet(u_in))
          /\ Range(u_out) \subseteq Range(u_in)
    /\ u_pc = 2 => u_out = u_prev

\* A list whose equal contents are not adjacent, deduplicated twice.
SortDedupWitness ==
    /\ u_pc = 2
    /\ Len(u_in) = 3
    /\ u_in[1].content = u_in[3].content
    /\ u_in[1].content # u_in[2].content
    /\ u_in[1].message_id # u_in[3].message_id
    /\ str_lt(u_in[2].content, u_in[1].content)
    /\ Len(u_out) = 2

\* Whether pair p comes before pair q in the ranking: count descending, then
\* word ascending.
RankedBefore(p, q) == p[2] > q[2] \/ (p[2] = q[2] /\ str_lt(p[1], q[1]))

\* C4: most_common_words lists (word, count) pairs of the frequency table, in
\* order of count descending with ties in ascending order of the word, and
\* holds the first 10 of that order: every pair left out ranks after every
\* pair listed, and the length is min(10, number of distinct words). The list
\* is thereby determined by the table.
MostCommonIsRanking ==
    u_pc = 1 =>
      LET n == Cardinality(DOMAIN u_in)
      IN /\ Len(u_out) = (IF n < 10 THEN n ELSE 10)
         /\ \A i \in 1..Len(u_out) :
               u_out[i][1] \in DOMAIN u_in /\ u_out[i][2] = u_in[u_out[i][1]]
         /\ \A i, j \in 1..Len(u_out) : i < j => RankedBefore(u_out[i], u_out[j])
         /\ \A w \in DOMAIN u_in :
               (\A i \in 1..Len(u_out) : u_out[i][1] # w)
                  => \A i \in 1..Len(u_out) : RankedBefore(u_out[i], <<w, u_in[w]>>)

\* A table of more than 10 words with tied counts, ranked and cut to 10.
MostCommonWitness ==
    /\ u_pc = 1
    /\ Cardinality(DOMAIN u_in) > 10
    /\ Len(u_out) = 10
    /\ \E v, w \in DOMAIN u_in : v # w /\ u_in[v] = u_in[w]
    /\ \E v, w \in DOMAIN u_in : u_in[v] # u_in[w]

\* ---- the run of main ----
\* pat occurs in s when upper and lower case are not told apart.
ContainsIgnoringCase(s, pat) ==
    \E i \in 0..(Len(s) - Len(pat)) :
        \A j \in 1..Len(pat) : char_to_lowercase(s[i + j]) = char_to_lowercase(pat[j])

\* A message is relevant when "deleted user" occurs, case ignored, in its
\* mentioned name or its mentioned nickname; an absent field holds nothing.
Relevant(m) ==
    \/ m.mentioned_user_name # None /\ ContainsIgnoringCase(m.mentioned_user_name[1], DeletedUserLit)
    \/ m.mentioned_user_nickname # None /\ ContainsIgnoringCase(m.mentioned_user_nickname[1], DeletedUserLit)

\* The filter has been collected.
Filtered ==
    \/ pc \in {"group", "dedup", "spawn", "map", "global", "result", "display", "write"}
    \/ pc = "done" /\ exit \in {"Ok", "ErrWrite"}

\* C2: the sequence the filter keeps is the subsequence of the relevant input
\* messages, in the input's order, whatever the order the workers ran in; a
\* message with both fields absent is never kept.
FilterKeepsRelevantInOrder ==
    Filtered =>
      /\ msgs = input_file.records
      /\ deleted_msgs = SelectSeq(input_file.records, Relevant)
      /\ \A i \in 1..Len(deleted_msgs) :
            deleted_msgs[i].mentioned_user_name # None
              \/ deleted_msgs[i].mentioned_user_nickname # None

\* Three messages filtered: a nickname-only match, one with both fields
\* absent, a name match.
FilterWitness ==
    /\ pc = "group"
    /\ msgs = <<M4, M5, M1>>
    /\ deleted_msgs = <<M4, M1>>

\* The authors with a relevant message in the input, and the content values of
\* an author's relevant messages.
RelevantAuthors == {m.author_id : m \in {x \in Range(input_file.records) : Relevant(x)}}
RelevantContents(a) ==
    {m.content : m \in {x \in Range(input_file.records) : Relevant(x) /\ x.author_id = a}}

\* The AuthorAnalysis records of the result.
Analyses == result[1].authors_analysis

\* The count of w in a frequency table, 0 when it has no key for w.
CountIn(table, w) == IF w \in DOMAIN table THEN table[w] ELSE 0

\* C5: for every word w, global_word_frequency[w] is the sum over the author
\* records of the result of word_frequency[w] (0 where absent), and the global
\* table has a key for w exactly when some author's table has.
GlobalIsSumOfAuthors ==
    result # None =>
      LET g == result[1].global_word_frequency
      IN /\ DOMAIN g = UNION {DOMAIN Analyses[i].word_frequency : i \in 1..Len(Analyses)}
         /\ \A w \in DOMAIN g :
               g[w] = SetSum(1..Len(Analyses),
                             [i \in 1..Len(Analyses) |-> CountIn(Analyses[i].word_frequency, w)])

\* Two authors sharing a word, and a word only one of them has.
GlobalSumWitness ==
    /\ result # None
    /\ Len(Analyses) = 2
    /\ \E w \in DOMAIN result[1].global_word_frequency :
          /\ w \in DOMAIN Analyses[1].word_frequency
          /\ w \in DOMAIN Analyses[2].word_frequency
          /\ Analyses[1].word_frequency[w] # Analyses[2].word_frequency[w]
    /\ \E w \in DOMAIN result[1].global_word_frequency :
          w \notin DOMAIN Analyses[2].word_frequency

\* C6: total_messages is the sum of the authors' total_messages_to_deleted_user,
\* messages_to_deleted_users the sum of their unique_message_count, and for
\* every author both counts are the length of the deduplicated list, so the
\* two totals are equal.
CountsAgree ==
    result # None =>
      /\ result[1].total_messages =
            SetSum(1..Len(Analyses),
                   [i \in 1..Len(Analyses) |-> Analyses[i].total_messages_to_deleted_user])
      /\ result[1].messages_to_deleted_users =
            SetSum(1..Len(Analyses),
                   [i \in 1..Len(Analyses) |-> Analyses[i].unique_message_count])
      /\ \A i \in 1..Len(Analyses) :
            /\ Analyses[i].total_messages_to_deleted_user = Analyses[i].unique_message_count
            /\ Analyses[i].unique_message_count = Len(author_msg_map[Analyses[i].author_id])
      /\ result[1].total_messages = result[1].messages_to_deleted_users

\* Two authors, and a duplicate that deduplication removed.
CountsWitness ==
    /\ result # None
    /\ Len(Analyses) = 2
    /\ result[1].total_messages = 2
    /\ Len(deleted_msgs) = 3

\* C7: the result has one AuthorAnalysis per author_id with a relevant message
\* and no other (unique_authors is their number, no record has a zero count);
\* an author's total_messages_to_deleted_user is the number of distinct content
\* values among that author's relevant messages. Two same-content relevant
\* messages and one irrelevant message of one author give unique_authors = 1
\* and a count of 1; no messages give zero counts, no authors and an empty
\* global table.
OneAnalysisPerRelevantAuthor ==
    result # None =>
      /\ result[1].unique_authors = Cardinality(RelevantAuthors)
      /\ Len(Analyses) = Cardinality(RelevantAuthors)
      /\ {Analyses[i].author_id : i \in 1..Len(Analyses)} = RelevantAuthors
      /\ \A i \in 1..Len(Analyses) :
            /\ Analyses[i].total_messages_to_deleted_user
                  = Cardinality(RelevantContents(Analyses[i].author_id))
            /\ Analyses[i].total_messages_to_deleted_user >= 1
      /\ (\E a, b, c \in Range(input_file.records) :
             /\ Len(input_file.records) = 3
             /\ Range(input_file.records) = {a, b, c}
             /\ a.author_id = b.author_id /\ b.author_id = c.author_id
             /\ a.content = b.content /\ a.message_id # b.message_id
             /\ Relevant(a) /\ Relevant(b) /\ ~ Relevant(c))
          => /\ result[1].unique_authors = 1
             /\ Analyses[1].total_messages_to_deleted_user = 1
      /\ input_file.records = <<>>
          => /\ result[1].total_messages = 0
             /\ result[1].messages_to_deleted_users = 0
             /\ result[1].unique_authors = 0
             /\ Analyses = <<>>
             /\ DOMAIN result[1].global_word_frequency = {}

\* The scenario: M1 and M2 share a content and mention "Deleted User#0001",
\* M3 of the same author mentions a live user.
ScenarioWitness ==
    /\ pc = "done"
    /\ exit = "Ok"
    /\ input_file.records = <<M1, M3, M2>>
    /\ result[1].unique_authors = 1
    /\ Analyses[1].total_messages_to_deleted_user = 1

\* C8: an author's word_frequency[w] is the number of times w occurs in the
\* tokens of the author's deduplicated messages, that is of each distinct
\* content of the author's relevant messages once: every occurrence within a
\* message counts, and the table has a key exactly for the words occurring.
WordFrequencyCountsOccurrences ==
    result # None =>
      \A i \in 1..Len(Analyses) :
        LET cs == RelevantContents(Analyses[i].author_id)
            toks == [c \in cs |-> tokenize_content(c, args.min_word_length)]
            wf == Analyses[i].word_frequency
        IN /\ DOMAIN wf = UNION {Range(toks[c]) : c \in cs}
           /\ \A w \in DOMAIN wf :
                 /\ wf[w] = SetSum(cs, [c \in cs |-> Occurrences(w, toks[c])])
                 /\ wf[w] >= 1

\* "hey": twice in "Hey hey you", carried by two messages, and once in "yo hey".
Hey == <<104, 101, 121>>

\* An author with a duplicated content holding a word twice, and another content.
WordFrequencyWitness ==
    /\ result # None
    /\ input_file.records = <<M1, M6, M2>>
    /\ Analyses[1].unique_message_count = 2
    /\ Analyses[1].word_frequency[Hey] = 3

\* The result of the run computed by one thread, with no task and no hash
\* order: each field but the order of authors_analysis, which is given as a set.
SequentialAnalyses ==
    LET groups == group_by_author(SelectSeq(input_file.records, is_deleted_msg))
    IN {author_analysis(a, sort_dedup(groups[a]), args.min_word_length) : a \in DOMAIN groups}

SequentialGlobal(analyses) ==
    [w \in UNION {DOMAIN a.word_frequency : a \in analyses} |->
        SetSum(analyses, [a \in analyses |-> CountIn(a.word_frequency, w)])]

\* C9: no structure has two concurrent writers. A running task has its own
\* item and its own output slot, which nothing has written yet, so each slot is
\* written once, by the task of its item; tasks run only in the two parallel
\* stages, at most one per worker; the global table and analysis_data are
\* untouched while tasks run, and once main is past the parallel map no task
\* runs and every per-author record is complete and collected in its place.
\* So the result is that of a one-thread run in every field, authors_analysis
\* up to its order.
NoConcurrentWritersAndDeterministic ==
    /\ Cardinality(running) <= NWorkers
    /\ running # {} => pc \in {"filter", "map"}
    /\ pc = "filter" =>
          running \subseteq DOMAIN msgs /\ \A i \in running : filter_slot[i] = "todo"
    /\ pc = "map" =>
          running \subseteq DOMAIN author_vec /\ \A i \in running : map_slot[i] = None
    /\ pc \in {"filter", "group", "dedup", "spawn", "map"} =>
          global_word_frequency = EmptyMap /\ analysis_data = <<>>
    /\ pc \in {"global", "result", "display", "write"} =>
          /\ running = {}
          /\ \A i \in DOMAIN map_slot : map_slot[i] # None
          /\ Len(analysis_data) = Len(author_vec)
          /\ \A i \in DOMAIN author_vec : analysis_data[i].author_id = author_vec[i][1]
    /\ result # None =>
          LET seq == SequentialAnalyses
          IN /\ Range(Analyses) = seq
             /\ Len(Analyses) = Cardinality(seq)
             /\ result[1].unique_authors = Cardinality(seq)
             /\ result[1].total_messages =
                   SetSum(seq, [a \in seq |-> a.total_messages_to_deleted_user])
             /\ result[1].messages_to_deleted_users =
                   SetSum(seq, [a \in seq |-> a.unique_message_count])
             /\ result[1].global_word_frequency = SequentialGlobal(seq)

\* Two per-author tasks in flight at once, the second author's record written
\* before the first's in another run.
ConcurrentWitness ==
    /\ pc = "map"
    /\ running = {1, 2}
    /\ author_vec[1][1] = "A2"

\* The results were printed by display_results.
Reported == \E i \in 1..Len(console) : console[i][1] = "results"

\* The phase a line of the console is printed in.
PhaseOf(line) ==
    CASE line[1] = "starting" -> 0
      [] line[1] = "loaded" -> 1
      [] line[1] \in {"found", "authors"} -> 2
      [] line[1] = "results" -> 3
      [] line[1] = "saved" -> 4

\* C10: the phases run in the order load/parse, analyze, report, write (the
\* lines of the console are in the order of their phases, one report at
\* most), and a failure ends the run where it occurs. A failed read or parse leaves every
\* analysis variable as it was at the start, reports no result and writes no
\* file. The report is of a result built from the parsed input; the file is
\* written only after the report; a failed write comes after the analysis and
\* its report, and main returns it as an error: main returns Ok only when the
\* result was reported and, if --output was given, written.
FailuresEndTheRunInPhase ==
    /\ \A i, j \in 1..Len(console) :
          i < j => /\ PhaseOf(console[i]) <= PhaseOf(console[j])
                   /\ PhaseOf(console[j]) >= 3 => PhaseOf(console[i]) < PhaseOf(console[j])
    /\ (args.verbose /\ Reported) =>
          {console[i][1] : i \in 1..Len(console)} \ {"saved"}
             = {"starting", "loaded", "found", "authors", "results"}
    /\ exit \in {"ErrRead", "ErrParse"} =>
          /\ pc = "done"
          /\ ~ input_file.readable \/ ~ input_file.valid
          /\ msgs = <<>> /\ filter_slot = <<>> /\ deleted_msgs = <<>>
          /\ author_msg_map = EmptyMap /\ author_vec = <<>> /\ map_slot = <<>>
          /\ analysis_data = <<>> /\ global_word_frequency = EmptyMap
          /\ result = None
          /\ \A i \in 1..Len(console) : console[i] = <<"starting">>
          /\ out_file = None
    /\ result # None =>
          /\ input_file.readable /\ input_file.valid
          /\ msgs = input_file.records
          /\ result[1] = build_result(analysis_data, global_word_frequency)
    /\ Reported =>
          /\ result # None
          /\ pc \in {"write", "done"}
          /\ \E i \in 1..Len(console) :
                console[i] = <<"results", result[1].total_messages,
                               result[1].messages_to_deleted_users, result[1].unique_authors>>
    /\ out_file # None =>
          /\ Reported
          /\ out_file = result
          /\ args.output # None
          /\ exit = "Ok"
    /\ exit = "ErrWrite" =>
          /\ pc = "done"
          /\ args.output # None
          /\ result # None
          /\ Reported
          /\ out_file = None
    /\ exit = "Ok" =>
          /\ pc = "done"
          /\ Reported
          /\ args.output # None => out_file = result
    /\ pc = "done" <=> exit # "running"

\* A write that failed after two authors were analysed and reported.
WriteFailureWitness ==
    /\ exit = "ErrWrite"
    /\ Reported
    /\ result[1].unique_authors = 2
    /\ args.verbose

====
